---- MODULE Spec2Model ----
(***************************************************************************)
(* A model of chronicle's semantic indexing and retrieval engine           *)
(* (src/chronicle/semantic.py, class SemanticMemory): the chunker, the     *)
(* content hash, the chunks table with its UNIQUE content_hash column,     *)
(* index_file, index_directory, search and stats.                          *)
(*                                                                         *)
(* Texts are sequences of one-character strings.  A file is a record       *)
(* [kind, text]: kind is "text", "missing" (path.exists() is false) or     *)
(* "binary" (read_text raises UnicodeDecodeError).  The chunks table is a  *)
(* set of row records; SQLite scans it in rowid order.                     *)
(***************************************************************************)
EXTENDS Integers, Sequences, FiniteSets, TLC

VARIABLES fs, chunks, now, hasModel, ret, procs, inserted,
          memories, asks, expFile, experiences

vars == <<fs, chunks, now, hasModel, ret, procs, inserted,
          memories, asks, expFile, experiences>>

\* The state of SemanticMemory other than the clock, and the state of
\* Chronicle and ExperienceLog.
semanticVars == <<fs, chunks, hasModel, procs, inserted>>
chronicleVars == <<memories, asks>>
experienceVars == <<expFile, experiences>>

(***************************************************************************)
(* Bounds of the model.                                                    *)
(***************************************************************************)
\* Row writes (INSERT OR REPLACE statements) over the life of the store.
MaxWrites == 3
\* Largest limit (top_k) passed to search.
MaxLimit == 2
\* Stand-ins for index_file's chunking window: _chunk_text's defaults are
\* chunk_size=500 and overlap=50 (semantic.py:69); the model keeps
\* 0 < Overlap < ChunkSize / 2 and scales both down so that files of a few
\* words split into several chunks.
ChunkSize == 3
Overlap == 1
\* Inputs of the chunker when it is called on its own.
MaxTextLen == 5
MaxWindow == 3
\* Writes of the two concurrent index_file calls together.
MaxRaceWrites == 4
\* Memories and question-answer pairs a Chronicle is given.
MaxMemories == 2
MaxAsks == 1
\* Lines of a shell history file.
MaxHistory == 3

(***************************************************************************)
(* Python helpers the code relies on.                                      *)
(***************************************************************************)
Min(a, b) == IF a < b THEN a ELSE b
Max(a, b) == IF a > b THEN a ELSE b

Chars == {"a", "b", " "}

IsSpace(c) == c = " "

\* str.split() with no argument: maximal runs of non-whitespace characters.
RECURSIVE SplitFrom(_, _, _, _)
SplitFrom(text, i, cur, acc) ==
    IF i > Len(text)
    THEN IF cur = <<>> THEN acc ELSE Append(acc, cur)
    ELSE IF IsSpace(text[i])
         THEN SplitFrom(text, i + 1, <<>>,
                        IF cur = <<>> THEN acc ELSE Append(acc, cur))
         ELSE SplitFrom(text, i + 1, Append(cur, text[i]), acc)

split(text) == SplitFrom(text, 1, <<>>, <<>>)

\* " ".join(words)
RECURSIVE join(_)
join(words) ==
    IF words = <<>> THEN <<>>
    ELSE IF Len(words) = 1 THEN words[1]
    ELSE words[1] \o <<" ">> \o join(Tail(words))

\* seq[lo:hi] for lo >= 0 (0-based, hi exclusive, a negative hi counts from
\* the end, both ends clamped).
PySlice(seq, lo, hi) ==
    LET n == Len(seq)
        h == IF hi < 0 THEN Max(hi + n, 0) ELSE Min(hi, n)
        l == Min(lo, n)
    IN  IF h <= l THEN <<>> ELSE SubSeq(seq, l + 1, h)

\* list(range(0, stop, step)) for step # 0: empty when step < 0 <= stop.
PyRange(stop, step) ==
    IF step < 0 \/ stop <= 0 THEN <<>>
    ELSE [k \in 1..((stop + step - 1) \div step) |-> (k - 1) * step]

\* bool(chunk.strip()): some character is not whitespace.
NonBlank(chunk) == \E i \in 1..Len(chunk) : ~IsSpace(chunk[i])

(***************************************************************************)
(* Outcomes of a call: a returned value or a raised exception.             *)
(***************************************************************************)
NoError == "none"
ValueError == "ValueError"
UnicodeDecodeError == "UnicodeDecodeError"

\* A chunker that emits full windows only: range(0, len(words) - chunk_size
\* + 1, step).  The code does not do this.
WindowsFullOnly(words, chunk_size, step) ==
    LET idx == PyRange(Len(words) - chunk_size + 1, step)
    IN  [k \in 1..Len(idx) |->
            join(PySlice(words, idx[k], idx[k] + chunk_size))]

(***************************************************************************)
(* SemanticMemory._chunk_text                                              *)
(***************************************************************************)
\* The windows of the loop body, for a step that range() accepts.
Windows(words, chunk_size, step) ==
    LET idx == PyRange(Len(words), step)
        wins == [k \in 1..Len(idx) |->
                    join(PySlice(words, idx[k], idx[k] + chunk_size))]
    IN  SelectSeq(wins, NonBlank)

\* A chunker without the "or [text]" fallback.  The code does not do this.
chunk_textNoFallback(text, chunk_size, overlap) ==
    LET step == chunk_size - overlap IN
    IF step = 0
    THEN [raised |-> ValueError, value |-> <<>>]
    ELSE [raised |-> NoError,
          value |-> Windows(split(text), chunk_size, step)]

\* [raised, value]: range() raises ValueError for a zero step.
chunk_text(text, chunk_size, overlap) ==
    LET step == chunk_size - overlap IN
    IF step = 0
    THEN [raised |-> ValueError, value |-> <<>>]
    ELSE LET cs == Windows(split(text), chunk_size, step)
         IN  [raised |-> NoError,
              value |-> IF cs # <<>> THEN cs ELSE <<text>>]

(***************************************************************************)
(* SemanticMemory._hash_content: sha256(content.encode()).hexdigest()[:16].*)
(* A 64-bit digest prefix; on the texts of the model it is collision free, *)
(* so it is modelled as a tagged, injective image of the content.          *)
(***************************************************************************)
hash_content(content) == <<"sha256/16">> \o content

(***************************************************************************)
(* The embedding provider (SentenceTransformer.encode), an external        *)
(* capability: any deterministic map from text to a fixed-length vector.   *)
(* The model's provider maps a text to one of five vectors by the letters  *)
(* it holds; their magnitudes are 5 or 0, so cosines are exact hundredths. *)
(***************************************************************************)
Count(text, c) == Cardinality({i \in 1..Len(text) : text[i] = c})

encode(text) ==
    LET na == Count(text, "a")
        nb == Count(text, "b")
    IN  IF na = 0 /\ nb = 0 THEN <<0, 0>>
        ELSE IF nb = 0 THEN <<5, 0>>
        ELSE IF na = 0 THEN <<0, 5>>
        ELSE IF na > nb THEN <<4, 3>>
        ELSE <<3, 4>>

\* embedding.tobytes() and np.frombuffer(blob, dtype=np.float32); NULL is
\* the absent embedding.
NullBlob == [dtype |-> "null", data |-> <<>>]
tobytes(vec) == [dtype |-> "float32", data |-> vec]
frombuffer(blob) == blob.data

dot(u, v) == u[1] * v[1] + u[2] * v[2]

\* np.linalg.norm, exact on the provider's vectors.
norm(v) == CHOOSE r \in 0..(dot(v, v)) : r * r <= dot(v, v) /\ dot(v, v) < (r + 1) * (r + 1)

\* The cosine of search, in hundredths; 0/0 is NaN in numpy.
cosine(q, s) ==
    LET d == norm(q) * norm(s)
    IN  IF d = 0 THEN [nan |-> TRUE, pct |-> 0]
        ELSE [nan |-> FALSE, pct |-> (100 * dot(q, s)) \div d]

\* score >= min_score: every comparison with NaN is false.
ScoreGe(score, min_score) == ~score.nan /\ score.pct >= min_score

(***************************************************************************)
(* The chunks table (semantic.py:48-59): id INTEGER PRIMARY KEY and        *)
(* content_hash TEXT UNIQUE.                                               *)
(***************************************************************************)
Ids(rows) == {r.id : r \in rows}

\* The rowid SQLite gives a row inserted without one: the largest rowid of
\* the table plus one, taken before a conflicting row is removed.
NextRowId(rows) ==
    IF rows = {} THEN 1
    ELSE (CHOOSE m \in Ids(rows) : \A i \in Ids(rows) : i <= m) + 1

\* The row an INSERT of vals adds to the table.
NewRow(rows, vals) ==
    [id |-> NextRowId(rows),
     file_path |-> vals.file_path,
     chunk_index |-> vals.chunk_index,
     content |-> vals.content,
     content_hash |-> vals.content_hash,
     embedding |-> vals.embedding,
     created_at |-> vals.created_at,
     metadata |-> vals.metadata]

\* Mutant: a table whose content_hash column is not UNIQUE.
InsertNotUnique(rows, vals) == rows \cup {NewRow(rows, vals)}

\* Mutant: a table that is UNIQUE on (file_path, content_hash).
InsertUniquePerFile(rows, vals) ==
    {r \in rows : ~(r.content_hash = vals.content_hash
                    /\ r.file_path = vals.file_path)}
        \cup {NewRow(rows, vals)}

\* Mutant: an insert that first deletes the other rows of the same file.
InsertReplacingFile(rows, vals) ==
    {r \in rows : r.file_path # vals.file_path} \cup {NewRow(rows, vals)}

\* INSERT OR REPLACE INTO chunks (...) VALUES (...): a row with the same
\* content_hash is deleted, then the new row is inserted under a new id.
InsertOrReplace(rows, vals) ==
    {r \in rows : r.content_hash # vals.content_hash} \cup {NewRow(rows, vals)}

\* The rows of a full table scan, in rowid order.
RECURSIVE ScanFrom(_)
ScanFrom(rows) ==
    IF rows = {} THEN <<>>
    ELSE LET first == CHOOSE r \in rows : \A o \in rows : r.id <= o.id
         IN  <<first>> \o ScanFrom(rows \ {first})

(***************************************************************************)
(* SemanticMemory.index_file                                               *)
(***************************************************************************)
\* Mutant: the existence check never finds the chunk.
AlreadyIndexedNever(rows, content_hash, force) == FALSE

\* Mutant: a stored chunk without a vector does not count as indexed.
AlreadyIndexedEmbedded(rows, content_hash, force) ==
    ~force /\ \E r \in rows : /\ r.content_hash = content_hash
                              /\ r.embedding.dtype # "null"

\* Mutant: the existence check is made with force too.
AlreadyIndexedIgnoresForce(rows, content_hash, force) ==
    \E r \in rows : r.content_hash = content_hash

\* "Check if already indexed": the chunk is skipped.
AlreadyIndexed(rows, content_hash, force) ==
    ~force /\ \E r \in rows : r.content_hash = content_hash

\* Mutant: without a model a zero vector is stored in place of NULL.
EmbeddingBlobZero(model, chunk) ==
    IF model THEN tobytes(encode(chunk)) ELSE tobytes(<<0, 0>>)

\* "Generate embedding": NULL without a model.
EmbeddingBlob(model, chunk) ==
    IF model THEN tobytes(encode(chunk)) ELSE NullBlob

\* The values of the INSERT for chunk number i (0-based) of the file; clock
\* is datetime.now() at the write.
RowValues(path, i, chunk, model, clock) ==
    [file_path |-> path,
     chunk_index |-> i,
     content |-> chunk,
     content_hash |-> hash_content(chunk),
     embedding |-> EmbeddingBlob(model, chunk),
     created_at |-> clock,
     metadata |-> [source |-> path, chunk |-> i]]

\* Mutant: the call returns the number of distinct chunks it wrote.
ReturnDistinct(indexed, cs) ==
    Min(indexed, Cardinality({cs[k] : k \in 1..Len(cs)}))

\* Mutant: the call returns the number of chunks of the file.
ReturnChunked(indexed, cs) == Len(cs)

\* "return indexed"
ReturnIndexed(indexed, cs) == indexed

\* Mutant: a path that does not exist makes the call raise.
MissingRaises(rows, clock) ==
    [rows |-> rows, now |-> clock, raised |-> "FileNotFoundError", count |-> 0]

\* "if not path.exists(): return 0"
MissingReturns(rows, clock) ==
    [rows |-> rows, now |-> clock, raised |-> NoError, count |-> 0]

\* The loop over enumerate(chunks), from position k (1-based) on.
RECURSIVE IndexChunks(_, _, _, _, _, _, _, _)
IndexChunks(rows, clock, indexed, cs, k, path, force, model) ==
    IF k > Len(cs)
    THEN [rows |-> rows, now |-> clock, raised |-> NoError,
          count |-> ReturnIndexed(indexed, cs)]
    ELSE IF AlreadyIndexed(rows, hash_content(cs[k]), force)
         THEN IndexChunks(rows, clock, indexed, cs, k + 1, path, force, model)
         ELSE IndexChunks(
                  InsertOrReplace(rows, RowValues(path, k - 1, cs[k], model, clock + 1)),
                  clock + 1, indexed + 1, cs, k + 1, path, force, model)

\* [rows, now, raised, count]: the table and the clock after the call, and
\* what the call returned or raised.
index_file(rows, clock, files, model, path, force) ==
    IF files[path].kind = "missing"
    THEN MissingReturns(rows, clock)
    ELSE IF files[path].kind = "binary"
    THEN [rows |-> rows, now |-> clock, raised |-> UnicodeDecodeError, count |-> 0]
    ELSE IndexChunks(rows, clock, 0,
                     chunk_text(files[path].text, ChunkSize, Overlap).value,
                     1, path, force, model)

(***************************************************************************)
(* SemanticMemory.index_directory                                          *)
(***************************************************************************)
\* path.rglob(pattern): the files that exist, in an order the file system
\* chooses.
Matched(files) == {p \in DOMAIN files : files[p].kind # "missing"}

Orders(S) ==
    {o \in [1..Cardinality(S) -> S] : \A i, j \in 1..Cardinality(S) : o[i] = o[j] => i = j}

\* Mutant: index_directory forces every file.
DirectoryForceTrue == TRUE

\* self.index_file(str(file)): force keeps its default, False.
DirectoryForce == FALSE

\* The loop over the matched files, from position k on: an exception of
\* index_file leaves the loop and the function.
RECURSIVE IndexFiles(_, _, _, _, _, _, _)
IndexFiles(rows, clock, total, order, k, files, model) ==
    IF k > Len(order)
    THEN [rows |-> rows, now |-> clock, raised |-> NoError, count |-> total]
    ELSE LET r == index_file(rows, clock, files, model, order[k], DirectoryForce)
         IN  IF r.raised # NoError
             THEN [rows |-> r.rows, now |-> r.now, raised |-> r.raised, count |-> 0]
             ELSE IndexFiles(r.rows, r.now, total + r.count, order, k + 1, files, model)

index_directory(rows, clock, files, model, order) ==
    IndexFiles(rows, clock, 0, order, 1, files, model)

(***************************************************************************)
(* SemanticMemory.search                                                   *)
(***************************************************************************)
\* SELECT ... WHERE embedding IS NOT NULL, then "if embedding_blob".
Embedded(rows) ==
    SelectSeq(ScanFrom(rows),
              LAMBDA r : r.embedding # NullBlob /\ r.embedding.data # <<>>)

Result(row, query_embedding) ==
    [file_path |-> row.file_path,
     content |-> row.content,
     score |-> cosine(query_embedding, frombuffer(row.embedding))]

\* The loop that scores every row and keeps those at or above min_score.
Scored(rows, query_embedding, min_score) ==
    LET all == [k \in 1..Len(Embedded(rows)) |->
                    Result(Embedded(rows)[k], query_embedding)]
    IN  SelectSeq(all, LAMBDA x : ScoreGe(x.score, min_score))

\* results.sort(key=lambda x: x[2], reverse=True): stable, so entries of
\* equal score keep their order.
RECURSIVE InsertDesc(_, _)
InsertDesc(sorted, x) ==
    IF sorted = <<>> THEN <<x>>
    ELSE IF Head(sorted).score.pct >= x.score.pct
         THEN <<Head(sorted)>> \o InsertDesc(Tail(sorted), x)
         ELSE <<x>> \o sorted

\* Mutant: the results are left in scan order.
SortNone(results) == results

RECURSIVE SortDesc(_)
SortDesc(results) ==
    IF results = <<>> THEN <<>>
    ELSE InsertDesc(SortDesc(SubSeq(results, 1, Len(results) - 1)),
                    results[Len(results)])

\* results[:limit]
Truncate(results, limit) == PySlice(results, 0, limit)

\* Without a model search prints "Error: Embedding model not available" and
\* returns the empty list.
search(rows, model, query, limit, min_score) ==
    IF ~model THEN <<>>
    ELSE Truncate(SortDesc(Scored(rows, encode(query), min_score)), limit)

(***************************************************************************)
(* SemanticMemory.stats                                                    *)
(***************************************************************************)
\* Mutant: COUNT(file_path) without DISTINCT.
statsCountFilePaths(rows) ==
    [total_chunks |-> Cardinality(rows),
     total_files |-> Cardinality(rows)]

stats(rows) ==
    [total_chunks |-> Cardinality(rows),
     total_files |-> Cardinality({r.file_path : r \in rows})]

(***************************************************************************)
(* The inputs of the model.                                                *)
(***************************************************************************)
Paths == {"f1", "f2"}

MissingFile == [kind |-> "missing", text |-> <<>>]
BinaryFile == [kind |-> "binary", text |-> <<>>]
TextFile(text) == [kind |-> "text", text |-> text]

\* "a" is one chunk; "a b a b a" splits into "a b a", "a b a", "a" under a
\* window of 3 words advancing by 2.
FileTexts ==
    {<<"a">>, <<"a", " ", "b", " ", "a", " ", "b", " ", "a">>}

FileStates == {MissingFile, BinaryFile} \cup {TextFile(t) : t \in FileTexts}

\* The files searched: also "b", and " ", which has no word, is kept
\* verbatim as its only chunk and embeds to the zero vector, and "aa", which
\* embeds to the vector of "a".
SearchFileStates ==
    {MissingFile}
        \cup {TextFile(t) : t \in FileTexts \cup {<<"b">>, <<" ">>, <<"a", "a">>}}

Queries == {<<"a">>, <<"b">>}
Limits == 0..MaxLimit
\* min_score in hundredths; 30 is search's default 0.3.
MinScores == {0, 30, 90}

\* All texts of at most n characters.
TextsUpTo(n) == UNION {[1..k -> Chars] : k \in 0..n}

(***************************************************************************)
(* ret: the last call, its arguments and what it returned or raised.       *)
(* repeat says that the call before it was a returned index_file of the    *)
(* same path, with no write to the file system in between.                 *)
(***************************************************************************)
NoCall ==
    [op |-> "init", path |-> "", force |-> FALSE, raised |-> NoError,
     count |-> 0, repeat |-> FALSE, order |-> <<>>,
     query |-> <<>>, limit |-> 0, min_score |-> 0, results |-> <<>>,
     text |-> <<>>, chunk_size |-> 0, overlap |-> 0, value |-> <<>>,
     total_chunks |-> 0, total_files |-> 0,
     memory |-> <<>>, total_memories |-> 0, total_asks |-> 0,
     exists |-> FALSE]

\* History: the fingerprints ever written by an INSERT, in the order of
\* their first write.  Every chunk of a file that index_file reads is
\* written or was written before, so the chunks of the file that are not
\* in the history yet join it in chunk order.
RECURSIVE FirstInserted(_, _, _)
FirstInserted(seq, cs, k) ==
    IF k > Len(cs) THEN seq
    ELSE FirstInserted(
             IF \E i \in 1..Len(seq) : seq[i] = hash_content(cs[k])
             THEN seq ELSE Append(seq, hash_content(cs[k])),
             cs, k + 1)

FileInserted(seq, files, path) ==
    IF files[path].kind = "text"
    THEN FirstInserted(seq,
             chunk_text(files[path].text, ChunkSize, Overlap).value, 1)
    ELSE seq

\* The same for the files index_directory reaches before it returns or
\* raises.
RECURSIVE DirectoryInserted(_, _, _, _)
DirectoryInserted(seq, files, order, k) ==
    IF k > Len(order) \/ files[order[k]].kind = "binary" THEN seq
    ELSE DirectoryInserted(FileInserted(seq, files, order[k]),
                           files, order, k + 1)

\* The processes of the concurrent-writer specification; elsewhere a single
\* process makes every call and these stay idle.
Procs == {"p1", "p2"}

Idle ==
    [pc |-> "idle", path |-> "", cs |-> <<>>, k |-> 0, indexed |-> 0,
     wrote |-> {}, intx |-> FALSE, view |-> {}, raised |-> NoError,
     count |-> 0, created_at |-> 0]

NoProcs == [p \in Procs |-> Idle]

Init ==
    /\ fs \in [Paths -> FileStates]
    /\ chunks = {}
    /\ now = 0
    /\ hasModel \in BOOLEAN
    /\ ret = NoCall
    /\ procs = NoProcs
    /\ inserted = <<>>
    /\ memories = {}
    /\ asks = <<>>
    /\ expFile = <<>>
    /\ experiences = <<>>

\* The environment replaces, creates or deletes a file.
WriteFile(path, file) ==
    /\ fs[path] # file
    /\ fs' = [fs EXCEPT ![path] = file]
    /\ ret' = [NoCall EXCEPT !.op = "write_file", !.path = path]
    /\ UNCHANGED <<chunks, now, hasModel, procs, inserted>>
    /\ UNCHANGED <<chronicleVars, experienceVars>>

IndexFile(path, force) ==
    LET r == index_file(chunks, now, fs, hasModel, path, force) IN
    /\ r.now <= MaxWrites
    /\ chunks' = r.rows
    /\ now' = r.now
    /\ ret' = [NoCall EXCEPT !.op = "index_file", !.path = path,
                             !.force = force, !.raised = r.raised,
                             !.count = r.count,
                             !.repeat = (ret.op = "index_file"
                                         /\ ret.path = path
                                         /\ ret.raised = NoError)]
    /\ inserted' = FileInserted(inserted, fs, path)
    /\ UNCHANGED <<fs, hasModel, procs>>
    /\ UNCHANGED <<chronicleVars, experienceVars>>

IndexDirectory(order) ==
    LET r == index_directory(chunks, now, fs, hasModel, order) IN
    /\ r.now <= MaxWrites
    /\ chunks' = r.rows
    /\ now' = r.now
    /\ ret' = [NoCall EXCEPT !.op = "index_directory", !.order = order,
                             !.raised = r.raised, !.count = r.count]
    /\ inserted' = DirectoryInserted(inserted, fs, order, 1)
    /\ UNCHANGED <<fs, hasModel, procs>>
    /\ UNCHANGED <<chronicleVars, experienceVars>>

Search(query, limit, min_score) ==
    /\ ret' = [NoCall EXCEPT !.op = "search", !.query = query,
                             !.limit = limit, !.min_score = min_score,
                             !.results = search(chunks, hasModel, query,
                                                limit, min_score)]
    /\ UNCHANGED <<fs, chunks, now, hasModel, procs, inserted>>
    /\ UNCHANGED <<chronicleVars, experienceVars>>

Stats ==
    /\ ret' = [NoCall EXCEPT !.op = "stats",
                             !.total_chunks = stats(chunks).total_chunks,
                             !.total_files = stats(chunks).total_files]
    /\ UNCHANGED <<fs, chunks, now, hasModel, procs, inserted>>
    /\ UNCHANGED <<chronicleVars, experienceVars>>

Next ==
    \/ \E p \in Paths, f \in FileStates : WriteFile(p, f)
    \/ \E p \in Paths, force \in BOOLEAN : IndexFile(p, force)
    \/ \E o \in Orders(Matched(fs)) : IndexDirectory(o)
    \/ Stats

Spec == Init /\ [][Next]_vars

(***************************************************************************)
(* Indexing and searching a fixed set of files.                            *)
(***************************************************************************)
InitSearch ==
    /\ fs \in [Paths -> SearchFileStates]
    /\ chunks = {}
    /\ now = 0
    /\ hasModel \in BOOLEAN
    /\ ret = NoCall
    /\ procs = NoProcs
    /\ inserted = <<>>
    /\ memories = {}
    /\ asks = <<>>
    /\ expFile = <<>>
    /\ experiences = <<>>

NextSearch ==
    \/ \E p \in Paths, force \in BOOLEAN : IndexFile(p, force)
    \/ \E o \in Orders(Matched(fs)) : IndexDirectory(o)
    \/ \E q \in Queries, k \in Limits, m \in MinScores : Search(q, k, m)

SpecSearch == InitSearch /\ [][NextSearch]_vars

(***************************************************************************)
(* The chunker called on its own: the arguments of the call are drawn from *)
(* every text of at most MaxTextLen characters and every window and        *)
(* overlap up to MaxWindow and MaxWindow + 1; ChunkText makes the call.    *)
(***************************************************************************)
ChunkInputs ==
    {[NoCall EXCEPT !.text = t, !.chunk_size = w, !.overlap = o] :
        t \in TextsUpTo(MaxTextLen), w \in 1..MaxWindow,
        o \in 0..(MaxWindow + 1)}

InitChunk ==
    /\ fs = [p \in Paths |-> MissingFile]
    /\ chunks = {}
    /\ now = 0
    /\ hasModel = FALSE
    /\ ret \in ChunkInputs
    /\ procs = NoProcs
    /\ inserted = <<>>
    /\ memories = {}
    /\ asks = <<>>
    /\ expFile = <<>>
    /\ experiences = <<>>

ChunkText ==
    LET r == chunk_text(ret.text, ret.chunk_size, ret.overlap) IN
    /\ ret.op = "init"
    /\ ret' = [ret EXCEPT !.op = "chunk_text",
                          !.raised = r.raised, !.value = r.value]
    /\ UNCHANGED <<fs, chunks, now, hasModel, procs, inserted>>
    /\ UNCHANGED <<chronicleVars, experienceVars>>

NextChunk == ChunkText

SpecChunk == InitChunk /\ [][NextChunk]_vars

(***************************************************************************)
(* Two processes, each with its own SemanticMemory (its own connection) on *)
(* the same database file, run index_file(path) with force=False, one      *)
(* statement at a time.  A connection opens a transaction at its first     *)
(* INSERT and holds the database's write lock until conn.commit(); inside  *)
(* the transaction it reads its own writes (view), outside it reads the    *)
(* committed table (chunks).  While one connection holds the lock, the     *)
(* INSERT of the other waits, and raises OperationalError ("database is    *)
(* locked") if the wait outlasts the connection's timeout.                 *)
(***************************************************************************)
OperationalError == "OperationalError"

InitRace ==
    /\ fs \in [Paths -> FileStates]
    /\ chunks = {}
    /\ now = 0
    /\ hasModel \in BOOLEAN
    /\ ret = NoCall
    /\ procs = NoProcs
    /\ inserted = <<>>
    /\ memories = {}
    /\ asks = <<>>
    /\ expFile = <<>>
    /\ experiences = <<>>

\* What the process reads: its transaction's table or the committed one.
Visible(p) == IF procs[p].intx THEN procs[p].view ELSE chunks

\* The loop moves on to chunk k + 1, or to conn.commit() after the last.
Advance(proc) ==
    IF proc.k + 1 > Len(proc.cs)
    THEN [proc EXCEPT !.pc = "commit"]
    ELSE [proc EXCEPT !.pc = "check", !.k = proc.k + 1]

\* The call up to the loop: path.exists(), read_text(), _chunk_text().
Begin(p, path) ==
    /\ procs[p].pc = "idle"
    /\ procs' = [procs EXCEPT ![p] =
           IF fs[path].kind = "missing"
           THEN [Idle EXCEPT !.pc = "done", !.path = path]
           ELSE IF fs[path].kind = "binary"
           THEN [Idle EXCEPT !.pc = "done", !.path = path,
                             !.raised = UnicodeDecodeError]
           ELSE [Idle EXCEPT !.pc = "check", !.path = path, !.k = 1,
                    !.cs = chunk_text(fs[path].text, ChunkSize, Overlap).value]]
    /\ UNCHANGED <<fs, chunks, now, hasModel, ret, inserted>>
    /\ UNCHANGED <<chronicleVars, experienceVars>>

\* "SELECT id FROM chunks WHERE content_hash = ?" and `if existing: continue`.
Check(p) ==
    LET proc == procs[p] IN
    /\ proc.pc = "check"
    /\ procs' = [procs EXCEPT ![p] =
           IF AlreadyIndexed(Visible(p), hash_content(proc.cs[proc.k]), FALSE)
           THEN Advance(proc)
           ELSE [proc EXCEPT !.pc = "encode"]]
    /\ UNCHANGED <<fs, chunks, now, hasModel, ret, inserted>>
    /\ UNCHANGED <<chronicleVars, experienceVars>>

\* The embedding of chunk k and the values of its row, datetime.now()
\* among them: the clock is read before the INSERT is executed.
Stamp(p) ==
    LET proc == procs[p] IN
    /\ proc.pc = "encode"
    /\ now < MaxRaceWrites
    /\ now' = now + 1
    /\ procs' = [procs EXCEPT ![p] =
           [proc EXCEPT !.pc = "insert", !.created_at = now + 1]]
    /\ UNCHANGED <<fs, chunks, hasModel, ret, inserted>>
    /\ UNCHANGED <<chronicleVars, experienceVars>>

\* The INSERT OR REPLACE of chunk k and `indexed += 1`, once no other
\* connection holds the write lock.
Insert(p) ==
    LET proc == procs[p] IN
    /\ proc.pc = "insert"
    /\ \A q \in Procs \ {p} : ~procs[q].intx
    /\ procs' = [procs EXCEPT ![p] =
           Advance([proc EXCEPT
               !.intx = TRUE,
               !.view = InsertOrReplace(Visible(p),
                            RowValues(proc.path, proc.k - 1, proc.cs[proc.k],
                                      hasModel, proc.created_at)),
               !.indexed = proc.indexed + 1,
               !.wrote = proc.wrote \cup {proc.cs[proc.k]}])]
    /\ inserted' = FirstInserted(inserted, <<proc.cs[proc.k]>>, 1)
    /\ UNCHANGED <<fs, chunks, now, hasModel, ret>>
    /\ UNCHANGED <<chronicleVars, experienceVars>>

\* The INSERT gives up waiting for the other connection's lock.
Busy(p) ==
    LET proc == procs[p] IN
    /\ proc.pc = "insert"
    /\ \E q \in Procs \ {p} : procs[q].intx
    /\ procs' = [procs EXCEPT ![p] =
           [proc EXCEPT !.pc = "done", !.raised = OperationalError]]
    /\ UNCHANGED <<fs, chunks, now, hasModel, ret, inserted>>
    /\ UNCHANGED <<chronicleVars, experienceVars>>

\* self.conn.commit() and `return indexed`.
Commit(p) ==
    LET proc == procs[p] IN
    /\ proc.pc = "commit"
    /\ chunks' = Visible(p)
    /\ procs' = [procs EXCEPT ![p] =
           [proc EXCEPT !.pc = "done", !.intx = FALSE, !.view = {},
                        !.count = proc.indexed]]
    /\ UNCHANGED <<fs, now, hasModel, ret, inserted>>
    /\ UNCHANGED <<chronicleVars, experienceVars>>

NextRace ==
    \E p \in Procs :
        \/ \E path \in Paths : Begin(p, path)
        \/ Check(p)
        \/ Stamp(p)
        \/ Insert(p)
        \/ Busy(p)
        \/ Commit(p)

SpecRace == InitRace /\ [][NextRace]_vars

(***************************************************************************)
(* One SemanticMemory instance makes one index_file call after another,    *)
(* one statement at a time, and self.model.encode(chunk) may raise.  The   *)
(* exception leaves index_file before conn.commit(); nothing rolls the     *)
(* transaction back, so the rows the call wrote stay in the connection's   *)
(* open transaction (view) and out of the committed table (chunks).        *)
(***************************************************************************)
EncodeError == "EncodeError"

\* A call starts on the instance, whose connection keeps its transaction.
Call(p, path) ==
    /\ procs[p].pc \in {"idle", "done"}
    /\ procs' = [procs EXCEPT ![p] =
           LET kept == [Idle EXCEPT !.path = path,
                                    !.intx = procs[p].intx,
                                    !.view = procs[p].view]
           IN  IF fs[path].kind = "missing"
               THEN [kept EXCEPT !.pc = "done"]
               ELSE IF fs[path].kind = "binary"
               THEN [kept EXCEPT !.pc = "done", !.raised = UnicodeDecodeError]
               ELSE [kept EXCEPT !.pc = "check", !.k = 1,
                        !.cs = chunk_text(fs[path].text,
                                          ChunkSize, Overlap).value]]
    /\ ret' = [NoCall EXCEPT !.op = "index_file", !.path = path]
    /\ UNCHANGED <<fs, chunks, now, hasModel, inserted>>
    /\ UNCHANGED <<chronicleVars, experienceVars>>

\* Mutant: the failed call rolls its transaction back.
EncodeFailsRollback(p) ==
    LET proc == procs[p] IN
    /\ proc.pc = "encode"
    /\ hasModel
    /\ procs' = [procs EXCEPT ![p] =
           [proc EXCEPT !.pc = "done", !.raised = EncodeError,
                        !.intx = FALSE, !.view = {}]]
    /\ UNCHANGED <<fs, chunks, now, hasModel, ret, inserted>>
    /\ UNCHANGED <<chronicleVars, experienceVars>>

\* self.model.encode(chunk) raises: the call ends without conn.commit().
EncodeFails(p) ==
    LET proc == procs[p] IN
    /\ proc.pc = "encode"
    /\ hasModel
    /\ procs' = [procs EXCEPT ![p] =
           [proc EXCEPT !.pc = "done", !.raised = EncodeError]]
    /\ UNCHANGED <<fs, chunks, now, hasModel, ret, inserted>>
    /\ UNCHANGED <<chronicleVars, experienceVars>>

\* stats() on the instance, between two calls: it reads through self.conn.
InstanceStats(p) ==
    /\ procs[p].pc \in {"idle", "done"}
    /\ ret' = [NoCall EXCEPT !.op = "stats",
                             !.total_chunks = stats(Visible(p)).total_chunks,
                             !.total_files = stats(Visible(p)).total_files]
    /\ UNCHANGED <<fs, chunks, now, hasModel, procs, inserted>>
    /\ UNCHANGED <<chronicleVars, experienceVars>>

NextPartial ==
    \/ \E path \in Paths : Call("p1", path)
    \/ Check("p1")
    \/ Stamp("p1")
    \/ Insert("p1")
    \/ EncodeFails("p1")
    \/ Commit("p1")
    \/ InstanceStats("p1")

SpecPartial == InitRace /\ [][NextPartial]_vars

(***************************************************************************)
(* A store that outlives its SemanticMemory object: the process constructs *)
(* a new object on the same database file, with or without the embedding   *)
(* provider importable (HAS_EMBEDDINGS).                                   *)
(***************************************************************************)
Reopen(model) ==
    /\ hasModel # model
    /\ hasModel' = model
    /\ ret' = [NoCall EXCEPT !.op = "reopen"]
    /\ UNCHANGED <<fs, chunks, now, procs, inserted>>
    /\ UNCHANGED <<chronicleVars, experienceVars>>

InitReopen ==
    /\ fs \in [Paths -> {MissingFile} \cup {TextFile(t) : t \in FileTexts}]
    /\ chunks = {}
    /\ now = 0
    /\ hasModel = FALSE
    /\ ret = NoCall
    /\ procs = NoProcs
    /\ inserted = <<>>
    /\ memories = {}
    /\ asks = <<>>
    /\ expFile = <<>>
    /\ experiences = <<>>

NextReopen ==
    \/ \E p \in Paths, force \in BOOLEAN : IndexFile(p, force)
    \/ \E o \in Orders(Matched(fs)) : IndexDirectory(o)
    \/ \E q \in Queries, k \in Limits, m \in MinScores : Search(q, k, m)
    \/ \E model \in BOOLEAN : Reopen(model)

SpecReopen == InitReopen /\ [][NextReopen]_vars

(***************************************************************************)
(* core.py: Memory and Chronicle.  The memories table has id TEXT PRIMARY  *)
(* KEY; every method opens its own connection and commits when its `with`  *)
(* block ends, or rolls back when the block raises.                        *)
(***************************************************************************)
IntegrityError == "IntegrityError"
TypeError == "TypeError"
None == "None"

\* json.dumps and json.loads on lists and dicts of strings.
dumps(x) == <<"json", x>>
loads(j) == j[2]

\* Memory.__post_init__: tags and context default to [] and {}, and the id
\* is sha256(f"{content}{timestamp}")[:16]; timestamps have a fixed layout,
\* so the concatenation is modelled with the timestamp as one element.
Memory(content, timestamp, platform, project, tags, context) ==
    [content |-> content,
     timestamp |-> timestamp,
     platform |-> platform,
     project |-> project,
     tags |-> IF tags = None THEN <<>> ELSE tags,
     context |-> IF context = None THEN <<>> ELSE context,
     id |-> <<"sha256/16", content \o <<timestamp>>>>]

\* The row add inserts for a Memory.
MemoryRow(m) ==
    [id |-> m.id, content |-> m.content, timestamp |-> m.timestamp,
     platform |-> m.platform, project |-> m.project,
     tags |-> dumps(m.tags), context |-> dumps(m.context)]

\* The Memory search and context build from a row.
MemoryOf(row) ==
    [content |-> row.content, timestamp |-> row.timestamp,
     platform |-> row.platform, project |-> row.project,
     tags |-> loads(row.tags), context |-> loads(row.context),
     id |-> row.id]

\* Mutant: INSERT OR REPLACE keyed on the content.
InsertMemoryReplacingContent(rows, row) ==
    {r \in rows : r.content # row.content} \cup {row}

\* INSERT INTO memories ... on a table without a row of that id.
InsertMemory(rows, row) == rows \cup {row}

\* Chronicle.add at time `timestamp`: [rows, raised, memory].  `tags or []`
\* and `context or {}` are the defaults of Memory again.
add(rows, content, platform, project, tags, context, timestamp) ==
    LET memory == Memory(content, timestamp, platform, project, tags, context)
    IN  IF \E r \in rows : r.id = memory.id
        THEN [rows |-> rows, raised |-> IntegrityError, memory |-> <<>>]
        ELSE [rows |-> InsertMemory(rows, MemoryRow(memory)),
              raised |-> NoError, memory |-> memory]

\* Chronicle.remember
remember(rows, text, source, tags, timestamp) ==
    add(rows, text, source, "default", tags, None, timestamp)

\* SQLite's LIKE: % is any run of characters, _ any one character, and
\* ASCII letters match without regard to case.
Lower(c) == IF c = "A" THEN "a" ELSE IF c = "B" THEN "b" ELSE c

RECURSIVE Like(_, _)
Like(text, pattern) ==
    IF pattern = <<>> THEN text = <<>>
    ELSE IF Head(pattern) = "%"
    THEN Like(text, Tail(pattern))
             \/ (text # <<>> /\ Like(Tail(text), pattern))
    ELSE /\ text # <<>>
         /\ (Head(pattern) = "_" \/ Lower(Head(pattern)) = Lower(Head(text)))
         /\ Like(Tail(text), Tail(pattern))

\* ORDER BY timestamp DESC LIMIT ?: the orders SQLite may return the rows
\* in (rows of equal timestamp in any order), cut to limit; a negative
\* limit is no limit.
DescLimit(rows, limit) ==
    LET n == IF limit < 0 THEN Cardinality(rows)
             ELSE Min(limit, Cardinality(rows))
    IN  {SubSeq(o, 1, n) :
            o \in {o \in Orders(rows) :
                      \A i, j \in 1..Cardinality(rows) :
                          i < j => o[i].timestamp >= o[j].timestamp}}

\* Chronicle.search: the lists of Memory objects it may return.
chronicle_search(rows, query, limit) ==
    LET sel == {r \in rows : Like(r.content, <<"%">> \o query \o <<"%">>)}
    IN  {[k \in 1..Len(o) |-> MemoryOf(o[k])] : o \in DescLimit(sel, limit)}

\* Chronicle.recall
recall(rows, query, limit) ==
    {[k \in 1..Len(ms) |->
         [text |-> ms[k].content, timestamp |-> ms[k].timestamp,
          source |-> ms[k].platform, tags |-> ms[k].tags]] :
       ms \in chronicle_search(rows, query, limit)}

\* Chronicle.context
context(rows, limit) ==
    {[k \in 1..Len(o) |-> MemoryOf(o[k])] : o \in DescLimit(rows, limit)}

\* Chronicle.get_asks with a query: the pairs whose question is LIKE it,
\* newest first; the asks of the model have distinct timestamps.
RECURSIVE Reverse(_)
Reverse(seq) ==
    IF seq = <<>> THEN <<>> ELSE Append(Reverse(Tail(seq)), Head(seq))

get_asks(pairs, query) ==
    LET sel == SelectSeq(pairs,
                   LAMBDA a : query = <<>>
                       \/ Like(a.question, <<"%">> \o query \o <<"%">>))
    IN  [k \in 1..Len(sel) |->
            [question |-> Reverse(sel)[k].question,
             answer |-> Reverse(sel)[k].answer,
             timestamp |-> Reverse(sel)[k].timestamp]]

\* Chronicle.stats
chronicle_stats(rows, pairs) ==
    [total_memories |-> Cardinality(rows), total_asks |-> Len(pairs)]

\* The inputs of Chronicle.
Contents == {<<"a">>, <<"A", "b">>}
MemoryQueries == {<<"a">>, <<"b">>, <<"_">>}

\* datetime.now() at a call: the clock has ticked since the last call, or
\* has not (two calls within its resolution).
Clock == {now, now + 1}

Add(content, tags) ==
    \E t \in Clock :
        LET r == add(memories, content, "unknown", "default", tags, None, t) IN
        /\ Cardinality(memories) < MaxMemories
        /\ memories' = r.rows
        /\ now' = t
        /\ ret' = [NoCall EXCEPT !.op = "add", !.text = content,
                                 !.raised = r.raised, !.memory = r.memory]
        /\ UNCHANGED <<semanticVars, asks, experienceVars>>

Remember(text) ==
    \E t \in Clock :
        LET r == remember(memories, text, "heartbeat", None, t) IN
        /\ Cardinality(memories) < MaxMemories
        /\ memories' = r.rows
        /\ now' = t
        /\ ret' = [NoCall EXCEPT !.op = "remember", !.text = text,
                                 !.raised = r.raised, !.memory = r.memory]
        /\ UNCHANGED <<semanticVars, asks, experienceVars>>

ChronicleSearch(query, limit) ==
    \E res \in chronicle_search(memories, query, limit) :
        /\ ret' = [NoCall EXCEPT !.op = "chronicle_search", !.query = query,
                                 !.limit = limit, !.results = res]
        /\ UNCHANGED <<semanticVars, now, chronicleVars, experienceVars>>

Recall(query, limit) ==
    \E res \in recall(memories, query, limit) :
        /\ ret' = [NoCall EXCEPT !.op = "recall", !.query = query,
                                 !.limit = limit, !.results = res]
        /\ UNCHANGED <<semanticVars, now, chronicleVars, experienceVars>>

Context(limit) ==
    \E res \in context(memories, limit) :
        /\ ret' = [NoCall EXCEPT !.op = "context", !.limit = limit,
                                 !.results = res]
        /\ UNCHANGED <<semanticVars, now, chronicleVars, experienceVars>>

Ask(question, answer) ==
    /\ Len(asks) < MaxAsks
    /\ asks' = Append(asks, [question |-> question, answer |-> answer,
                             memory_id |-> None, timestamp |-> now + 1])
    /\ now' = now + 1
    /\ ret' = [NoCall EXCEPT !.op = "ask", !.query = question]
    /\ UNCHANGED <<semanticVars, memories, experienceVars>>

GetAsks(query) ==
    /\ ret' = [NoCall EXCEPT !.op = "get_asks", !.query = query,
                             !.results = get_asks(asks, query)]
    /\ UNCHANGED <<semanticVars, now, chronicleVars, experienceVars>>

ChronicleStats ==
    LET r == chronicle_stats(memories, asks) IN
    /\ ret' = [NoCall EXCEPT !.op = "chronicle_stats",
                             !.total_memories = r.total_memories,
                             !.total_asks = r.total_asks]
    /\ UNCHANGED <<semanticVars, now, chronicleVars, experienceVars>>

InitChronicle ==
    /\ fs = [p \in Paths |-> MissingFile]
    /\ chunks = {}
    /\ now = 0
    /\ hasModel = FALSE
    /\ ret = NoCall
    /\ procs = NoProcs
    /\ inserted = <<>>
    /\ memories = {}
    /\ asks = <<>>
    /\ expFile = <<>>
    /\ experiences = <<>>

NextChronicle ==
    \/ \E c \in Contents : Add(c, <<"shell">>)
    \/ \E c \in Contents : Remember(c)
    \/ \E q \in MemoryQueries, k \in Limits : ChronicleSearch(q, k)
    \/ Recall(<<"a">>, 1)
    \/ Context(1)
    \/ Ask(<<"a">>, <<"b">>)
    \/ \E q \in {<<>>, <<"b">>} : GetAsks(q)
    \/ ChronicleStats

SpecChronicle == InitChronicle /\ [][NextChronicle]_vars

(***************************************************************************)
(* watchers.py: ShellWatcher.watch_history, which captures the lines of a  *)
(* shell history file into its Chronicle.                                  *)
(***************************************************************************)
\* text holds query as a contiguous run of the same characters (`in`).
Contains(text, query) ==
    \E i \in 0..(Len(text) - Len(query)) :
        SubSeq(text, i + 1, i + Len(query)) = query

StartsWith(text, prefix) ==
    Len(text) >= Len(prefix) /\ SubSeq(text, 1, Len(prefix)) = prefix

StartsWithAny(text, prefixes) == \E x \in prefixes : StartsWith(text, x)

\* str.lower on the letters of the model.
LowerCase(text) ==
    [i \in 1..Len(text) |->
        IF text[i] = "T" THEN "t" ELSE Lower(text[i])]

\* ShellWatcher._classify_command
classify_command(cmd) ==
    IF StartsWithAny(cmd, {<<"g", "i", "t", " ">>, <<"g", "h", " ">>})
    THEN <<"shell", "git">> ELSE
    IF StartsWithAny(cmd, {<<"d", "o", "c", "k", "e", "r", " ">>, <<"k", "u", "b", "e", "c", "t", "l", " ">>})
    THEN <<"shell", "devops">> ELSE
    IF StartsWithAny(cmd, {<<"p", "y", "t", "h", "o", "n", " ">>, <<"p", "i", "p", " ">>, <<"p", "o", "e", "t", "r", "y", " ">>})
    THEN <<"shell", "python">> ELSE
    IF StartsWithAny(cmd, {<<"n", "p", "m", " ">>, <<"y", "a", "r", "n", " ">>, <<"n", "o", "d", "e", " ">>})
    THEN <<"shell", "nodejs">> ELSE
    IF StartsWithAny(cmd, {<<"c", "d", " ">>, <<"l", "s", " ">>, <<"c", "a", "t", " ">>, <<"g", "r", "e", "p", " ">>})
    THEN <<"shell", "navigation">> ELSE
    IF Contains(LowerCase(cmd), <<"t", "e", "s", "t">>) \/ Contains(cmd, <<"p", "y", "t", "e", "s", "t">>)
    THEN <<"shell", "testing">> ELSE
    IF \E x \in {<<"b", "u", "i", "l", "d">>, <<"d", "e", "p", "l", "o", "y">>, <<"r", "e", "l", "e", "a", "s", "e">>} : Contains(cmd, x)
    THEN <<"shell", "build">> ELSE
    <<"shell">>

\* The keyword parameters Chronicle.add declares, and the keywords
\* watch_history passes to it: add(content=cmd, tags=tags,
\* source='shell_history').
AddParameters == {"content", "platform", "project", "tags", "context"}
WatchKeywords == {"content", "tags", "source"}

\* filter_fn: absent, or a test on the length of the line (the demo's
\* `len(cmd) > 10`, scaled to the lines of the model).
FilterFns == {"none", "longer"}
Keep(filter_fn, cmd) == filter_fn = "none" \/ Len(cmd) > 2

\* `not cmd.strip() or cmd.startswith('#')`: the line is skipped.
Skipped(cmd) == split(cmd) = <<>> \/ StartsWith(cmd, <<"#">>)

\* The capture loop from command k on: [rows, now, raised].  A call with a
\* keyword the callee does not declare raises TypeError before the callee
\* runs.
RECURSIVE Capture(_, _, _, _)
Capture(rows, clock, commands, k) ==
    IF k > Len(commands)
    THEN [rows |-> rows, now |-> clock, raised |-> NoError]
    ELSE IF Skipped(commands[k])
    THEN Capture(rows, clock, commands, k + 1)
    ELSE IF ~(WatchKeywords \subseteq AddParameters)
    THEN [rows |-> rows, now |-> clock, raised |-> TypeError]
    ELSE LET r == add(rows, commands[k], "unknown", "default",
                      classify_command(commands[k]), None, clock + 1)
         IN  IF r.raised # NoError
             THEN [rows |-> r.rows, now |-> clock + 1, raised |-> r.raised]
             ELSE Capture(r.rows, clock + 1, commands, k + 1)

\* watch_history on a history file: absent, or its lines (splitlines).
watch_history(rows, clock, exists, lines, filter_fn) ==
    IF ~exists
    THEN [rows |-> rows, now |-> clock, raised |-> NoError]
    ELSE Capture(rows, clock,
                 SelectSeq(lines, LAMBDA c : Keep(filter_fn, c)), 1)

\* The history files of the model.
HistoryLines ==
    {<<>>, <<" ">>, <<"#", "a">>, <<"g", "i", "t", " ", "a">>, <<"l", "s">>}

RECURSIVE SeqsUpTo(_, _)
SeqsUpTo(S, n) ==
    IF n = 0 THEN {<<>>}
    ELSE SeqsUpTo(S, n - 1)
             \cup {Append(q, x) : q \in SeqsUpTo(S, n - 1), x \in S}

WatchHistory(exists, lines, filter_fn) ==
    LET r == watch_history(memories, now, exists, lines, filter_fn) IN
    /\ memories' = r.rows
    /\ now' = r.now
    /\ ret' = [NoCall EXCEPT !.op = "watch_history", !.exists = exists,
                             !.value = lines, !.path = filter_fn,
                             !.raised = r.raised]
    /\ UNCHANGED <<semanticVars, asks, experienceVars>>

NextWatcher ==
    \/ \E lines \in SeqsUpTo(HistoryLines, MaxHistory),
          f \in FilterFns : WatchHistory(TRUE, lines, f)
    \/ WatchHistory(FALSE, <<>>, "none")
    \/ \E q \in MemoryQueries, k \in Limits : ChronicleSearch(q, k)

SpecWatcher == InitChronicle /\ [][NextWatcher]_vars

(***************************************************************************)
(* ExperienceLog (experience.py).  A str is a sequence of characters and   *)
(* an Optional[str] that is None is Null.  Of the fields of Experience the *)
(* model keeps timestamp, summary, content, category and id; the others    *)
(* stay at their defaults.  A JSON text is a sequence of tokens            *)
(* <<kind, characters>>: punctuation, a key, a string literal with its     *)
(* escapes, null, the newline json.dumps(indent=2) puts after every item   *)
(* ("nl") and a blank ("sp").  expFile is the text of the .jsonl file and  *)
(* experiences is self._experiences, a dict in insertion order: a          *)
(* sequence of <<id, experience>>.                                         *)
(***************************************************************************)
MaxAdds == 2

JSONDecodeError == "JSONDecodeError"

Null == <<None>>

\* Python truth of an Optional[str].
Truthy(v) == v # Null /\ v # <<>>

\* Experience(...) with __post_init__: a missing id is derived from
\* f"{timestamp}{summary}".
Experience(timestamp, summary, content, category, id) ==
    [timestamp |-> timestamp,
     summary |-> summary,
     content |-> content,
     category |-> category,
     id |-> IF Truthy(id) THEN id
            ELSE <<"exp_", "sha256/12">> \o timestamp \o summary]

\* asdict(self): the fields in declaration order.
to_dict(exp) ==
    << <<"timestamp", exp.timestamp>>, <<"summary", exp.summary>>,
       <<"content", exp.content>>, <<"category", exp.category>>,
       <<"id", exp.id>> >>

\* The escapes json.dumps writes inside a string literal.
RECURSIVE escape(_)
escape(text) ==
    IF text = <<>> THEN <<>>
    ELSE (IF Head(text) = "\n" THEN <<"\\", "n">>
          ELSE IF Head(text) = "\\" THEN <<"\\", "\\">>
          ELSE <<Head(text)>>) \o escape(Tail(text))

\* What json.loads reads back from a string literal.
RECURSIVE unescape(_)
unescape(text) ==
    IF text = <<>> THEN <<>>
    ELSE IF Head(text) = "\\" /\ Len(text) >= 2
         THEN (IF text[2] = "n" THEN <<"\n">> ELSE <<text[2]>>)
                  \o unescape(Tail(Tail(text)))
         ELSE <<Head(text)>> \o unescape(Tail(text))

ValueToken(v) == IF v = Null THEN <<"null", <<>>>> ELSE <<"str", escape(v)>>

RECURSIVE DumpItems(_, _)
DumpItems(items, k) ==
    IF k > Len(items) THEN <<>>
    ELSE << <<"key", <<items[k][1]>>>>, <<"punct", <<":">>>>,
            ValueToken(items[k][2]) >>
         \o (IF k < Len(items) THEN << <<"punct", <<",">>>> >> ELSE <<>>)
         \o << <<"nl", <<>>>> >>
         \o DumpItems(items, k + 1)

\* json.dumps(self.to_dict(), indent=2).
to_json(exp) ==
    << <<"punct", <<"{">>>>, <<"nl", <<>>>> >>
        \o DumpItems(to_dict(exp), 1)
        \o << <<"punct", <<"}">>>> >>

\* Mutant: the newlines of the JSON text are kept.
ReplaceNothing(text) == text

\* .replace('\n', ' ')
ReplaceNewlines(text) ==
    [k \in 1..Len(text) |->
        IF text[k][1] = "nl" THEN <<"sp", <<>>>> ELSE text[k]]

IsBlank(token) == token[1] \in {"nl", "sp"}

\* str.strip()
RECURSIVE strip(_)
strip(text) ==
    IF text = <<>> THEN <<>>
    ELSE IF IsBlank(Head(text)) THEN strip(Tail(text))
    ELSE IF IsBlank(text[Len(text)])
         THEN strip(SubSeq(text, 1, Len(text) - 1))
    ELSE text

\* str.split('\n'): the pieces between the newlines, empty ones included.
RECURSIVE SplitLines(_, _, _)
SplitLines(text, k, line) ==
    IF k > Len(text) THEN <<line>>
    ELSE IF text[k][1] = "nl"
         THEN <<line>> \o SplitLines(text, k + 1, <<>>)
         ELSE SplitLines(text, k + 1, Append(line, text[k]))

\* The items of a JSON object from token k on: key, colon, value, and a
\* comma before the next key or the closing brace.
RECURSIVE ParseItems(_, _, _)
ParseItems(tokens, k, items) ==
    IF k + 3 > Len(tokens) THEN [raised |-> JSONDecodeError, value |-> <<>>]
    ELSE IF \/ tokens[k][1] # "key"
            \/ tokens[k + 1] # <<"punct", <<":">>>>
            \/ tokens[k + 2][1] \notin {"str", "null"}
         THEN [raised |-> JSONDecodeError, value |-> <<>>]
    ELSE LET value == IF tokens[k + 2][1] = "null" THEN Null
                      ELSE unescape(tokens[k + 2][2])
             more == Append(items, <<tokens[k][2][1], value>>)
         IN  IF tokens[k + 3] = <<"punct", <<"}">>>> /\ k + 3 = Len(tokens)
             THEN [raised |-> NoError, value |-> more]
             ELSE IF tokens[k + 3] = <<"punct", <<",">>>>
             THEN ParseItems(tokens, k + 4, more)
             ELSE [raised |-> JSONDecodeError, value |-> <<>>]

\* json.loads(line): blanks between tokens are skipped.
json_loads(line) ==
    LET tokens == SelectSeq(line, LAMBDA t : ~IsBlank(t)) IN
    IF tokens = <<>> \/ tokens[1] # <<"punct", <<"{">>>>
    THEN [raised |-> JSONDecodeError, value |-> <<>>]
    ELSE ParseItems(tokens, 2, <<>>)

Field(data, key) ==
    data[CHOOSE i \in 1..Len(data) : data[i][1] = key][2]

\* Experience(**data)
FromData(data) ==
    Experience(Field(data, "timestamp"), Field(data, "summary"),
               Field(data, "content"), Field(data, "category"),
               Field(data, "id"))

\* Mutant: a key the dict holds keeps its first value.
SetDefault(log, exp) ==
    IF \E i \in 1..Len(log) : log[i][1] = exp.id THEN log
    ELSE Append(log, <<exp.id, exp>>)

\* self._experiences[exp.id] = exp: a held key keeps its place.
SetItem(log, exp) ==
    IF \E i \in 1..Len(log) : log[i][1] = exp.id
    THEN [i \in 1..Len(log) |->
             IF log[i][1] = exp.id THEN <<exp.id, exp>> ELSE log[i]]
    ELSE Append(log, <<exp.id, exp>>)

RECURSIVE LoadLines(_, _, _)
LoadLines(lines, k, log) ==
    IF k > Len(lines) THEN [raised |-> NoError, value |-> log]
    ELSE IF lines[k] = <<>> THEN LoadLines(lines, k + 1, log)
    ELSE LET data == json_loads(lines[k]) IN
         IF data.raised # NoError THEN [raised |-> data.raised, value |-> log]
         ELSE LoadLines(lines, k + 1, SetItem(log, FromData(data.value)))

\* ExperienceLog(path): _load() of the file into an empty dict.
load(file) ==
    IF file = <<>> THEN [raised |-> NoError, value |-> <<>>]
    ELSE LoadLines(SplitLines(strip(file), 1, <<>>), 1, <<>>)

\* ExperienceLog.add: the dict entry, then the line appended to the file.
experience_add(log, file, exp) ==
    [log |-> SetItem(log, exp),
     file |-> file \o ReplaceNewlines(to_json(exp)) \o << <<"nl", <<>>>> >>,
     value |-> exp.id]

\* The categories counter of stats(): falsy categories are not counted.
Categories(log) ==
    LET cats == {log[i][2].category : i \in 1..Len(log)} IN
    [c \in {c \in cats : Truthy(c)} |->
        Cardinality({i \in 1..Len(log) : log[i][2].category = c})]

\* ExperienceLog.stats
experience_stats(log) ==
    [total |-> Len(log),
     categories |-> Categories(log),
     first |-> IF log # <<>> THEN log[Len(log)][2].timestamp ELSE Null,
     last |-> IF log # <<>> THEN log[1][2].timestamp ELSE Null]

Timestamps == {<<"1">>, <<"2">>}

Summaries == {<<"a">>, <<"a", "\n">>}

CategoryValues == {Null, <<"x">>}

IdValues == {Null, <<"e">>}

\* The number of lines written to the file.
Written == Cardinality({k \in 1..Len(expFile) : expFile[k][1] = "nl"})

ExperienceAdd(timestamp, summary, category, id) ==
    LET r == experience_add(experiences, expFile,
                 Experience(timestamp, summary, <<"c">>, category, id))
    IN  /\ Written < MaxAdds
        /\ experiences' = r.log
        /\ expFile' = r.file
        /\ ret' = [NoCall EXCEPT !.op = "experience_add", !.value = r.value]
        /\ UNCHANGED <<semanticVars, now, chronicleVars>>

\* The process starts again with a new ExperienceLog on the same path.
NewExperienceLog ==
    LET r == load(expFile) IN
    /\ experiences' = r.value
    /\ ret' = [NoCall EXCEPT !.op = "ExperienceLog", !.raised = r.raised]
    /\ UNCHANGED <<semanticVars, now, chronicleVars, expFile>>

ExperienceStats ==
    /\ ret' = [NoCall EXCEPT !.op = "experience_stats",
                             !.value = experience_stats(experiences)]
    /\ UNCHANGED <<semanticVars, now, chronicleVars, experienceVars>>

NextExperience ==
    \/ \E t \in Timestamps, s \in Summaries, c \in CategoryValues,
          i \in IdValues : ExperienceAdd(t, s, c, i)
    \/ NewExperienceLog
    \/ ExperienceStats

SpecExperience == InitChronicle /\ [][NextExperience]_vars

(***************************************************************************)
(* Properties.                                                             *)
(***************************************************************************)
\* The chunk texts index_file derives from a file.
FileChunkSeq(file) ==
    IF file.kind = "text" THEN chunk_text(file.text, ChunkSize, Overlap).value
    ELSE <<>>

FileChunks(file) == {FileChunkSeq(file)[k] : k \in 1..Len(FileChunkSeq(file))}

Hashes(rows) == {r.content_hash : r \in rows}

RowsOf(rows, content) == {r \in rows : r.content_hash = hash_content(content)}

\* C1: after any sequence of index_file and index_directory calls, forced or
\* not, no two stored chunk records have the same fingerprint.
C1_FingerprintUnique ==
    \A r1, r2 \in chunks : r1.content_hash = r2.content_hash => r1 = r2

\* A forced index_file has replaced a stored fingerprint (more writes than
\* rows) and the store holds several records.
C1_Witness ==
    /\ ret.op = "index_file" /\ ret.force /\ ret.count >= 2
    /\ now > Cardinality(chunks)
    /\ Cardinality(chunks) >= 2

\* C2: a second index_file(path, force=false) on the same unchanged file,
\* right after an index_file of that path that returned, returns 0 and
\* leaves every chunk record as it was.
C2_Idempotent ==
    [][(ret'.op = "index_file" /\ ret'.repeat /\ ~ret'.force)
          => (/\ ret'.raised = NoError
              /\ ret'.count = 0
              /\ chunks' = chunks
              /\ now' = now)]_vars

\* The second call has returned 0 for a file whose chunks are stored.
C2_Witness ==
    /\ ret.op = "index_file" /\ ret.repeat /\ ~ret.force /\ ret.count = 0
    /\ Len(FileChunkSeq(fs[ret.path])) >= 2
    /\ \E r \in chunks : r.file_path = ret.path

\* C3: once two different files with an identical chunk text have both been
\* indexed, by index_file in either order or by index_directory, the store
\* holds exactly one record for that text's fingerprint.
C3_DedupAcrossSources ==
    [][/\ (ret'.op = "index_file" /\ ret'.raised = NoError)
            => \A c \in FileChunks(fs[ret'.path]) :
                  (\E r \in chunks : r.content = c /\ r.file_path # ret'.path)
                      => Cardinality(RowsOf(chunks', c)) = 1
       /\ (ret'.op = "index_directory" /\ ret'.raised = NoError)
            => \A p1, p2 \in Matched(fs) :
                  p1 # p2 =>
                     \A c \in FileChunks(fs[p1]) \cap FileChunks(fs[p2]) :
                         Cardinality(RowsOf(chunks', c)) = 1]_vars

\* index_file(f1) has returned while the single record of one of f1's chunk
\* texts comes from f2.
C3_Witness ==
    /\ ret.op = "index_file" /\ ret.path = "f1" /\ ret.raised = NoError
    /\ fs["f1"] # fs["f2"]
    /\ \E c \in FileChunks(fs["f1"]) \cap FileChunks(fs["f2"]) :
          /\ Cardinality(RowsOf(chunks, c)) = 1
          /\ \E r \in RowsOf(chunks, c) : r.file_path = "f2"

\* C4: index_file returns the number of chunks it wrote, one per INSERT OR
\* REPLACE it executed: with force=false the number of fingerprints of the
\* file that were not stored before, never counting a skipped chunk; with
\* force=true every chunk of the file.
C4_ReturnsWritten ==
    [][(ret'.op = "index_file" /\ ret'.raised = NoError)
          => (/\ ret'.count = now' - now
              /\ ~ret'.force =>
                    /\ ret'.count = Cardinality(chunks' \ chunks)
                    /\ ret'.count = Cardinality(
                           {hash_content(c) : c \in FileChunks(fs[ret'.path])}
                               \ Hashes(chunks))
              /\ ret'.force => ret'.count = Len(FileChunkSeq(fs[ret'.path])))]_vars

\* A call without force has written some chunks of the file and skipped
\* others.
C4_Witness ==
    /\ ret.op = "index_file" /\ ~ret.force /\ ret.raised = NoError
    /\ ret.count > 0
    /\ ret.count < Len(FileChunkSeq(fs[ret.path]))

\* The embedded rows a search for query at min_score may return.
Candidates(rows, query, min_score) ==
    {r \in rows : /\ r.embedding # NullBlob
                  /\ ScoreGe(cosine(encode(query), r.embedding.data), min_score)}

EntryOf(row, query) ==
    [file_path |-> row.file_path,
     content |-> row.content,
     score |-> cosine(encode(query), row.embedding.data)]

\* C5: with a model and limit >= 0, search returns embedded chunks whose
\* score is >= min_score, each once and with its score, in descending order
\* of score, as many as there are up to limit, and no omitted chunk that
\* meets the threshold scores strictly higher than a returned one.
C5_SearchRanking ==
    (ret.op = "search" /\ hasModel) =>
        LET res == ret.results
            cand == Candidates(chunks, ret.query, ret.min_score)
        IN  /\ \A i \in 1..Len(res) :
                  \E r \in cand : res[i] = EntryOf(r, ret.query)
            /\ \A i, j \in 1..Len(res) : res[i] = res[j] => i = j
            /\ Len(res) = Min(ret.limit, Cardinality(cand))
            /\ \A i, j \in 1..Len(res) :
                  i < j => res[i].score.pct >= res[j].score.pct
            /\ \A r \in cand :
                  (\A i \in 1..Len(res) : res[i] # EntryOf(r, ret.query))
                      => \A i \in 1..Len(res) :
                            EntryOf(r, ret.query).score.pct <= res[i].score.pct

\* A search with limit 1 has returned the best chunk, which was inserted
\* after a lower-scoring chunk that also meets the threshold, while a third
\* embedded chunk is below the threshold.
C5_Witness ==
    /\ ret.op = "search" /\ hasModel /\ ret.limit = 1 /\ Len(ret.results) = 1
    /\ \E r, o \in Candidates(chunks, ret.query, ret.min_score) :
          /\ ret.results[1] = EntryOf(r, ret.query)
          /\ o.id < r.id
          /\ EntryOf(o, ret.query).score.pct < ret.results[1].score.pct
    /\ \E r \in chunks :
          /\ r.embedding # NullBlob
          /\ r \notin Candidates(chunks, ret.query, ret.min_score)

\* C6: without a model, what search returns to its caller differs from what
\* a search that ran and matched nothing returns (the empty list, no
\* exception).  The message search prints is not part of what it returns.
C6_UnavailableIsExplicit ==
    (ret.op = "search" /\ ~hasModel) =>
        <<ret.raised, ret.results>> # <<NoError, <<>>>>

\* C7: without a model, index_file on a file that exists and decodes returns,
\* leaves for every chunk text of the file that was not stored before exactly
\* one record, holding that text, its fingerprint and a NULL embedding, and
\* returns the number of records it wrote.
C7_DegradedIndexing ==
    [][(ret'.op = "index_file" /\ ~hasModel /\ fs[ret'.path].kind = "text")
          => (/\ ret'.raised = NoError
              /\ \A c \in FileChunks(fs[ret'.path]) :
                    hash_content(c) \notin Hashes(chunks) =>
                       /\ Cardinality(RowsOf(chunks', c)) = 1
                       /\ \A r \in RowsOf(chunks', c) :
                             /\ r.content = c
                             /\ r.file_path = ret'.path
                             /\ r.embedding = NullBlob
              /\ \A r \in chunks' \ chunks : r.embedding = NullBlob
              /\ ret'.count = now' - now
              /\ ~ret'.force => ret'.count = Cardinality(chunks' \ chunks))]_vars

\* Without a model, index_file has written at least two records and every
\* stored record has a NULL embedding.
C7_Witness ==
    /\ ~hasModel /\ ret.op = "index_file" /\ ret.raised = NoError
    /\ ret.count >= 2
    /\ Cardinality(chunks) >= 2
    /\ \A r \in chunks : r.embedding = NullBlob /\ r.content_hash = hash_content(r.content)

\* C8: index_directory does not abort when reading a matched file fails:
\* it returns, and every matched file that decodes has all its chunks
\* stored afterwards.
C8_FailureIsolated ==
    (ret.op = "index_directory") =>
        /\ ret.raised = NoError
        /\ \A k \in 1..Len(ret.order) :
              \A c \in FileChunks(fs[ret.order[k]]) :
                  hash_content(c) \in Hashes(chunks)

\* C9: index_file on a path that does not exist returns 0, raises nothing
\* and leaves the store unchanged, with or without force.
C9_MissingFile ==
    [][(ret'.op = "index_file" /\ fs[ret'.path].kind = "missing")
          => (/\ ret'.raised = NoError
              /\ ret'.count = 0
              /\ chunks' = chunks
              /\ now' = now)]_vars

\* A forced index_file of a missing path has returned 0 on a store that
\* holds records.
C9_Witness ==
    /\ ret.op = "index_file" /\ ret.force /\ fs[ret.path] = MissingFile
    /\ ret.count = 0 /\ ret.raised = NoError
    /\ chunks # {}

\* C10: every call of the chunker with overlap >= chunk_size raises.
C10_ConfigurationError ==
    (ret.op = "chunk_text" /\ ret.overlap >= ret.chunk_size) =>
        ret.raised # NoError

\* The words of chunk k that it does not repeat from its predecessor: all
\* the words of the first chunk, and of a later chunk the words after its
\* first `overlap` words (all of them when it has no more than that).
FreshWords(value, k, overlap) ==
    LET ws == split(value[k]) IN
    IF k = 1 THEN ws ELSE SubSeq(ws, Min(overlap, Len(ws)) + 1, Len(ws))

RECURSIVE Reconstruct(_, _, _)
Reconstruct(value, k, overlap) ==
    IF k > Len(value) THEN <<>>
    ELSE FreshWords(value, k, overlap) \o Reconstruct(value, k + 1, overlap)

\* C11: for a non-empty text and 0 <= overlap < chunk_size the chunker
\* returns at least one chunk, and the chunks taken in order, each without
\* the words it repeats from its predecessor, give back the words of the
\* text exactly.
C11_ChunkCoverage ==
    (/\ ret.op = "chunk_text" /\ ret.text # <<>>
     /\ 0 <= ret.overlap /\ ret.overlap < ret.chunk_size) =>
        /\ ret.raised = NoError
        /\ Len(ret.value) >= 1
        /\ Reconstruct(ret.value, 1, ret.overlap) = split(ret.text)

\* A text chunked into three or more overlapping windows, the last of which
\* holds fewer words than the overlap.
C11_Witness ==
    /\ ret.op = "chunk_text" /\ ret.text # <<>>
    /\ 0 < ret.overlap /\ ret.overlap < ret.chunk_size
    /\ Len(ret.value) >= 3
    /\ Len(split(ret.value[Len(ret.value)])) < ret.overlap
    /\ Len(split(ret.value[1])) = ret.chunk_size

\* C12: for 0 <= overlap < chunk_size, window k starts (k - 1) *
\* (chunk_size - overlap) words into the text, every emitted window but the
\* last has exactly chunk_size words, and at most one emitted window is
\* shorter than chunk_size.
C12_WindowShape ==
    (/\ ret.op = "chunk_text" /\ split(ret.text) # <<>>
     /\ 0 <= ret.overlap /\ ret.overlap < ret.chunk_size) =>
        LET words == split(ret.text)
            step  == ret.chunk_size - ret.overlap
            n     == Len(ret.value)
        IN  /\ \A k \in 1..n :
                   split(ret.value[k]) =
                       PySlice(words, (k - 1) * step,
                               (k - 1) * step + ret.chunk_size)
            /\ \A k \in 1..(n - 1) :
                   Len(split(ret.value[k])) = ret.chunk_size
            /\ Cardinality({k \in 1..n :
                   Len(split(ret.value[k])) < ret.chunk_size}) <= 1

\* C13: a text without words (empty or whitespace only), chunked with
\* overlap < chunk_size, yields exactly one chunk, the text itself.
C13_NoWindows ==
    (/\ ret.op = "chunk_text" /\ split(ret.text) = <<>>
     /\ ret.overlap < ret.chunk_size) =>
        /\ ret.raised = NoError
        /\ ret.value = <<ret.text>>

\* A whitespace-only text of several characters was chunked.
C13_Witness ==
    /\ ret.op = "chunk_text" /\ split(ret.text) = <<>>
    /\ Len(ret.text) >= 2
    /\ ret.overlap < ret.chunk_size
    /\ ret.value = <<ret.text>>

\* C14: a forced index_file replaces in place: every chunk of the file is
\* stored afterwards with the vector and timestamp of this call, and no
\* step of any sequence of index operations changes the id of a stored
\* record (a record being known by its fingerprint).
C14_ReplaceInPlace ==
    [][/\ \A r \in chunks : \A r2 \in chunks' :
              r2.content_hash = r.content_hash => r2.id = r.id
       /\ (/\ ret'.op = "index_file" /\ ret'.force
           /\ ret'.raised = NoError) =>
              \A c \in FileChunks(fs[ret'.path]) :
                  \E r2 \in chunks' :
                      /\ r2.content = c
                      /\ r2.file_path = ret'.path
                      /\ r2.created_at > now
                      /\ r2.embedding = EmbeddingBlob(hasModel, c)]_vars

\* C15: a forced index_file of a file leaves, for every chunk position of
\* the file at which a different text was stored for that file before, the
\* new text as the only text stored for that position.
C15_ForceReindexAfterEdit ==
    [][(/\ ret'.op = "index_file" /\ ret'.force
        /\ ret'.raised = NoError) =>
           LET cs == FileChunkSeq(fs[ret'.path]) IN
           \A k \in 1..Len(cs) :
               (\E r \in chunks : /\ r.file_path = ret'.path
                                  /\ r.chunk_index = k - 1
                                  /\ r.content # cs[k]) =>
                   \A r2 \in chunks' :
                       (r2.file_path = ret'.path /\ r2.chunk_index = k - 1)
                           => r2.content = cs[k]]_vars

\* C15, amended: a forced index_file of a file stores every chunk of the
\* file's current content under that file with the timestamp of this call,
\* and leaves every record whose text is not a chunk of the current content
\* exactly as it was, the records of the file's earlier content included.
C15_ForceReindexStoresNew ==
    [][(/\ ret'.op = "index_file" /\ ret'.force
        /\ ret'.raised = NoError) =>
           /\ \A c \in FileChunks(fs[ret'.path]) :
                  \E r2 \in chunks' : /\ r2.content = c
                                      /\ r2.file_path = ret'.path
                                      /\ r2.created_at > now
           /\ \A r \in chunks :
                  r.content \notin FileChunks(fs[ret'.path]) =>
                      r \in chunks']_vars

\* After an edit and a forced index_file, one chunk position of the file
\* holds both a text of the earlier content and a text of the current one.
C15_Witness ==
    /\ ret.op = "index_file" /\ ret.force /\ ret.raised = NoError
    /\ \E r1, r2 \in chunks :
           /\ r1.file_path = ret.path /\ r2.file_path = ret.path
           /\ r1.chunk_index = r2.chunk_index
           /\ r1.content \notin FileChunks(fs[ret.path])
           /\ r2.content \in FileChunks(fs[ret.path])
           /\ r2.created_at > r1.created_at

\* C16: no step of index_file, index_directory or stats removes a stored
\* fingerprint, and the total_chunks that stats reports never decreases.
C16_NeverDeleted ==
    [][/\ Hashes(chunks) \subseteq Hashes(chunks')
       /\ stats(chunks').total_chunks >= stats(chunks).total_chunks]_vars

\* stats is called on a store of several records after a forced re-index
\* has replaced one of them.
C16_Witness ==
    /\ ret.op = "stats"
    /\ ret.total_chunks >= 2
    /\ ret.total_chunks = Cardinality(Hashes(chunks))
    /\ now > ret.total_chunks

\* C17: index_file without force and index_directory leave every record
\* that existed before the call as it was, field for field, and write no
\* record for a fingerprint that was already stored.
C17_NonForcedFrame ==
    [][((ret'.op = "index_file" /\ ~ret'.force)
            \/ ret'.op = "index_directory") =>
           /\ chunks \subseteq chunks'
           /\ \A r2 \in chunks' \ chunks :
                  r2.content_hash \notin Hashes(chunks)]_vars

\* index_directory wrote new records next to a stored record of a chunk
\* that one of the matched files holds, and skipped that chunk.
C17_Witness ==
    /\ ret.op = "index_directory" /\ ret.raised = NoError
    /\ ret.count >= 1
    /\ \E r \in chunks :
           /\ r.created_at <= now - ret.count
           /\ \E p \in Matched(fs) : r.content \in FileChunks(fs[p])

\* C18: when two processes have run index_file without force on an empty
\* store, over files that share a chunk, and both have returned, the store
\* holds exactly one record of the shared chunk and exactly one of the two
\* processes counted it as written.
C18_ConcurrentWriters ==
    (\A p \in Procs : procs[p].pc = "done" /\ procs[p].raised = NoError) =>
        \A c \in FileChunks(fs["f1"]) \cup FileChunks(fs["f2"]) :
            (\A p \in Procs : /\ procs[p].path \in Paths
                              /\ c \in FileChunks(fs[procs[p].path])) =>
                /\ Cardinality(RowsOf(chunks, c)) = 1
                /\ Cardinality({p \in Procs : c \in procs[p].wrote}) = 1

\* C19: every index_directory call returns, having indexed every matching
\* file without force: each chunk of each matching file is stored, the
\* records that were stored stay as they were, and the number returned is
\* the number of records the per-file calls wrote; a call that follows
\* another index_directory call directly (the directory is unchanged)
\* returns 0 and writes nothing.
C19_DirectoryRun ==
    [][ret'.op = "index_directory" =>
           /\ ret'.raised = NoError
           /\ \A p \in Matched(fs) : \A c \in FileChunks(fs[p]) :
                  RowsOf(chunks', c) # {}
           /\ chunks \subseteq chunks'
           /\ ret'.count = Cardinality(chunks' \ chunks)
           /\ ret.op = "index_directory" =>
                  (ret'.count = 0 /\ chunks' = chunks)]_vars

\* The place of a fingerprint in the order of first insertion.
FirstInsertedAt(content) ==
    CHOOSE k \in 1..Len(inserted) : inserted[k] = hash_content(content)

\* C20: of two chunks that search returns with equal score, the one whose
\* record was first inserted earlier comes first, after any sequence of
\* index_file calls, forced or not.
C20_TieBreak ==
    (ret.op = "search" /\ hasModel) =>
        \A i, j \in 1..Len(ret.results) :
            (i < j /\ ret.results[i].score = ret.results[j].score) =>
                FirstInsertedAt(ret.results[i].content)
                    < FirstInsertedAt(ret.results[j].content)

\* C21: for every stored chunk whose vector, or the query's, has magnitude
\* zero, search excludes the chunk when min_score > 0, and when
\* min_score <= 0 the chunk is eligible with score 0: it is returned with
\* score 0 unless limit results were returned without it.
C21_ZeroMagnitude ==
    (ret.op = "search" /\ hasModel) =>
        \A r \in chunks :
            (/\ r.embedding # NullBlob
             /\ norm(encode(ret.query)) * norm(frombuffer(r.embedding)) = 0) =>
                LET returned ==
                        {i \in 1..Len(ret.results) :
                            ret.results[i].content = r.content}
                IN  /\ ret.min_score > 0 => returned = {}
                    /\ ret.min_score <= 0 =>
                           \/ Len(ret.results) >= ret.limit
                           \/ \E i \in returned :
                                  ret.results[i].score.pct = 0

\* C22: stats returns as total_chunks the number of stored records, which
\* is the number of fingerprints the earlier index calls wrote, and as
\* total_files the number of distinct file_path values among the records.
C22_Stats ==
    ret.op = "stats" =>
        /\ ret.total_chunks = Cardinality(Hashes(chunks))
        /\ ret.total_chunks = Len(inserted)
        /\ \E paths \in SUBSET Paths :
               /\ Cardinality(paths) = ret.total_files
               /\ \A p \in Paths :
                      p \in paths <=> \E r \in chunks : r.file_path = p

\* stats is called on a store holding more records than source files.
C22_Witness ==
    /\ ret.op = "stats"
    /\ ret.total_files >= 1
    /\ ret.total_chunks > ret.total_files

\* C23: every add or remember that returns adds exactly one memory record,
\* no operation of Chronicle removes or changes a stored memory record, the
\* operations other than add and remember store none, and the
\* total_memories of stats never decreases.
C23_AppendOnly ==
    [][/\ memories \subseteq memories'
       /\ (ret'.op \in {"add", "remember"} /\ ret'.raised = NoError) =>
              /\ Cardinality(memories') = Cardinality(memories) + 1
              /\ \E r \in memories' \ memories : r.content = ret'.text
       /\ ~(ret'.op \in {"add", "remember"} /\ ret'.raised = NoError) =>
              memories' = memories
       /\ chronicle_stats(memories', asks').total_memories
              >= chronicle_stats(memories, asks).total_memories]_vars

\* stats is called after two memories with the same content were added.
C23_Witness ==
    /\ ret.op = "chronicle_stats"
    /\ ret.total_memories = 2
    /\ \E m1, m2 \in memories : m1 # m2 /\ m1.content = m2.content

\* C24: Chronicle.search(query, limit) returns stored memories whose content
\* contains query as an exact substring and no other memory, each once,
\* newest timestamp first, as many as there are up to limit, the omitted
\* ones being no newer than the returned ones.
C24_ExactSubstring ==
    ret.op = "chronicle_search" =>
        LET res == ret.results
            match == {MemoryOf(r) : r \in {r \in memories :
                                              Contains(r.content, ret.query)}}
        IN  /\ \A i \in 1..Len(res) : res[i] \in match
            /\ \A i, j \in 1..Len(res) : res[i] = res[j] => i = j
            /\ Len(res) = Min(ret.limit, Cardinality(match))
            /\ \A i, j \in 1..Len(res) :
                   i < j => res[i].timestamp >= res[j].timestamp
            /\ \A m \in match :
                   (\A i \in 1..Len(res) : res[i] # m) =>
                       \A i \in 1..Len(res) : m.timestamp <= res[i].timestamp

\* C25: watch_history on an existing history file returns, having stored
\* for every line that passes filter_fn, is not blank and does not start
\* with '#' a memory with the line as content and the tags of
\* _classify_command, and every such memory is among what Chronicle.search
\* returns for the line.
C25_ShellCapture ==
    (ret.op = "watch_history" /\ ret.exists) =>
        /\ ret.raised = NoError
        /\ \A k \in 1..Len(ret.value) :
               (Keep(ret.path, ret.value[k]) /\ ~Skipped(ret.value[k])) =>
                   /\ \E r \in memories :
                          /\ r.content = ret.value[k]
                          /\ loads(r.tags) = classify_command(ret.value[k])
                   /\ \A res \in chronicle_search(memories, ret.value[k],
                                                   Cardinality(memories)) :
                          \E i \in 1..Len(res) :
                              res[i].content = ret.value[k]

\* C26: a record stored with a null vector keeps it under every index_file
\* without force and every index_directory, with or without a provider,
\* and search never returns a chunk whose record has a null vector.
C26_NullVectorKept ==
    [][/\ ((ret'.op = "index_file" /\ ~ret'.force)
               \/ ret'.op = "index_directory") =>
              \A r \in chunks :
                  r.embedding = NullBlob =>
                      \E r2 \in chunks' : /\ r2.content_hash = r.content_hash
                                          /\ r2.embedding = NullBlob
       /\ ret'.op = "search" =>
              \A i \in 1..Len(ret'.results) : \A r \in chunks' :
                  r.content = ret'.results[i].content
                      => r.embedding # NullBlob]_vars

\* With a provider configured, index_file without force has just run over
\* a file one of whose chunks is stored with a null vector, next to a
\* record that has a vector.
C26_Witness ==
    /\ ret.op = "index_file" /\ ~ret.force /\ hasModel
    /\ ret.raised = NoError
    /\ \E r \in chunks : /\ r.content \in FileChunks(fs[ret.path])
                         /\ r.embedding = NullBlob
    /\ \E r \in chunks : r.embedding # NullBlob

\* C27: an index_file without force returns the increase of total_chunks;
\* a forced index_file of an existing file returns the number of chunks the
\* file splits into, repeated and already stored ones included, while
\* total_chunks grows by the number of the file's fingerprints that were
\* not stored before.
C27_ReturnVersusGrowth ==
    [][(ret'.op = "index_file" /\ ret'.raised = NoError) =>
           LET growth == stats(chunks').total_chunks
                             - stats(chunks).total_chunks
               cs == FileChunkSeq(fs[ret'.path])
           IN  /\ ~ret'.force => ret'.count = growth
               /\ (ret'.force /\ fs[ret'.path].kind = "text") =>
                      /\ ret'.count = Len(cs)
                      /\ growth = Cardinality(
                             {hash_content(cs[k]) : k \in 1..Len(cs)}
                                 \ Hashes(chunks))]_vars

\* A forced index_file returned more than the store holds: a chunk repeated
\* inside the file, or stored before, was counted again.
C27_Witness ==
    /\ ret.op = "index_file" /\ ret.force /\ ret.raised = NoError
    /\ ret.count > Cardinality(chunks)
    /\ Cardinality(chunks) >= 2

\* C28: when index_file has raised at the embedding of a chunk, the rows
\* the call wrote before are absent from the committed table and present
\* in what the instance reads; a stats() on the instance counts them; the
\* existence check sees them, so the instance never writes a pending
\* fingerprint again; and once a later call has committed, every
\* fingerprint the instance ever wrote is in the committed table.
C28_PartialWrite ==
    LET proc == procs["p1"] IN
    /\ (proc.pc = "done" /\ proc.raised = EncodeError) =>
           /\ \A c \in proc.wrote : /\ RowsOf(chunks, c) = {}
                                    /\ RowsOf(Visible("p1"), c) # {}
           /\ ret.op = "stats" =>
                  ret.total_chunks >=
                      Cardinality(chunks) + Cardinality(proc.wrote)
    /\ proc.pc \in {"encode", "insert"} =>
           RowsOf(Visible("p1"), proc.cs[proc.k]) = {}
    /\ ~proc.intx =>
           \A k \in 1..Len(inserted) :
               \E r \in chunks : r.content_hash = inserted[k]

\* A committed chunk of one file is stored under another file although a
\* record of the first file was written earlier: the call that wrote the
\* earlier record stopped before that chunk, and a later call committed
\* both.
C28_Witness ==
    /\ ~procs["p1"].intx
    /\ procs["p1"].pc = "done" /\ procs["p1"].raised = NoError
    /\ \E r1, r2 \in chunks :
           /\ r1.file_path # r2.file_path
           /\ r1.id < r2.id
           /\ r2.content \in FileChunks(fs[r1.file_path])

\* The dict as a mapping: the set of its <<id, experience>> entries.
Entries(log) == {log[i] : i \in 1..Len(log)}

\* C29: after any sequence of add calls, also ones that reuse an id, a new
\* ExperienceLog on the same path loads without an error and holds the
\* same id-to-experience mapping as the log in memory; an id is held once,
\* and the experience of the last line of the file is held under its id.
C29_RoundTrip ==
    /\ load(expFile).raised = NoError
    /\ Entries(load(expFile).value) = Entries(experiences)
    /\ \A i, j \in 1..Len(experiences) :
           experiences[i][1] = experiences[j][1] => i = j
    /\ expFile # <<>> =>
           LET lines == SplitLines(strip(expFile), 1, <<>>)
               last == FromData(json_loads(lines[Len(lines)]).value)
           IN  /\ <<last.id, last>> \in Entries(experiences)
               /\ ret.op = "experience_add" => ret.value = last.id

\* Two lines of the file hold one id, and a new log was made from the file.
C29_Witness ==
    /\ ret.op = "ExperienceLog"
    /\ Written = 2
    /\ Len(experiences) = 1
    /\ \E k \in 1..Len(expFile) :
           expFile[k][1] = "str" /\ expFile[k][2] = <<"a", "\\", "n">>

\* The timestamps are ISO strings of one format; their order is the order
\* of the strings.
TimeOf(timestamp) == CHOOSE n \in 1..9 : <<"1", "2", "3", "4", "5", "6", "7", "8", "9">>[n] = timestamp[1]

\* C30: stats() of a non-empty log gives as 'first' the earliest timestamp
\* of the log and as 'last' the latest, so first <= last.
C30_TimeRange ==
    (ret.op = "experience_stats" /\ ret.value.total > 0) =>
        LET times == {TimeOf(e[2].timestamp) : e \in Entries(experiences)} IN
        /\ \A t \in times : TimeOf(ret.value.first) <= t
        /\ \A t \in times : t <= TimeOf(ret.value.last)
        /\ TimeOf(ret.value.first) <= TimeOf(ret.value.last)

====
